---- MODULE Spec2Model ----
(***************************************************************************)
(* TaskMaster API (backend/server.py): the task collection db.tasks and    *)
(* the request handlers create_task, get_tasks, get_task, update_task,     *)
(* delete_task and sync_tasks.  Specification Spec runs one request at a   *)
(* time against a reachable store (no store outage): every handler action  *)
(* is one whole handler, from schema validation to the HTTP response, and  *)
(* complete is the client taking the response, after which the next        *)
(* request can be sent.                                                    *)
(*                                                                         *)
(* Further specifications over the same variables:                         *)
(*   SpecStats  adds get_stats and get_productivity_analytics to the      *)
(*              handlers that change the collection;                       *)
(*   SpecFault  adds, for every handler, the runs in which one of its      *)
(*              db.tasks calls raises (store outage);                      *)
(*   SpecConc   runs the handlers of two clients one store call at a time, *)
(*              a handler being suspended at each await;                   *)
(*   SpecWeeks  applies get_productivity_analytics to collections whose   *)
(*              tasks were created around the ends of earlier weeks.       *)
(*                                                                         *)
(* Representation                                                          *)
(*   - an id string is a pair <<form, n>>: <<"lc", n>> is the lower-case   *)
(*     24-hex spelling of ObjectId n, <<"uc", n>> an upper-case spelling   *)
(*     of the same ObjectId, <<"bad", 0>> a string that is not 24 hex      *)
(*     digits, <<"empty", 0>> the empty string;                            *)
(*   - a timestamp is a natural number of clock ticks of half a second,    *)
(*     instant 0 being a Monday at 00:00:00; isoformat() keeps the order   *)
(*     of timestamps, and a date is the number of its day;                 *)
(*   - a rate is a number of tenths of a percent;                          *)
(*   - a JSON body, a query string, a Python dict and a pydantic model    *)
(*     are records whose DOMAIN is the set of keys that carry a non-null  *)
(*     value: a key holding None is left out, which loses nothing here    *)
(*     because every optional field is read through dict.get or through   *)
(*     a pydantic default of None.                                         *)
(***************************************************************************)
EXTENDS Integers, Sequences, FiniteSets, TLC

\* ------------------------------------------------------------------ bounds
MaxOid  == 1     \* ObjectIds the driver generates are 1..MaxOid
MaxTime == 1     \* the clock is followed for MaxTime ticks

\* --------------------------------------------------------------- constants
DefaultLimit == 100
PRIORITIES == {"high", "medium", "low"}
CATEGORIES == {"work", "personal", "study"}

VARIABLES
    tasks,      \* db.tasks: ObjectId -> document (the document without _id)
    clock,      \* the wall clock read by datetime.now()
    nextOid,    \* next ObjectId the driver generates for a document without _id
    lastReq,    \* the request just handled, [op |-> "none"] between requests
    lastResp,   \* its HTTP response; dbCalls counts the db.tasks calls it made
    session,    \* what the client keeps of the exchange before: the id and the
                \* input of a record it has just created, the id it has just deleted
    inflight    \* per client, the handler that is between two of its store
                \* calls, with its local variables; used when requests overlap

vars == <<tasks, clock, nextOid, lastReq, lastResp, session, inflight>>

\* no request is being handled
Idle == lastReq.op = "none"

\* the clients whose requests can overlap, and a client with no handler running
Clients == {"c1", "c2"}
NoHandler == [op |-> "none"]

\* ----------------------------------------------------------------- records
Restrict(r, keys) == [k \in (DOMAIN r) \cap keys |-> r[k]]
Without(r, key) == [k \in (DOMAIN r) \ {key} |-> r[k]]
Min(a, b) == IF a <= b THEN a ELSE b

\* ------------------------------------------------------------- identifiers
ClientOids == {101}                         \* an ObjectId minted by a client
Oids == (1..MaxOid) \cup ClientOids
\* faulty variant: every string passes for an ObjectId
is_valid_Any(s) == TRUE
\* ObjectId.is_valid(s)
is_valid(s) == s[1] \in {"lc", "uc"}
\* ObjectId(s), for a valid s
ObjectId(s) == s[2]
\* str(oid): always the lower-case spelling
str(oid) == <<"lc", oid>>

PathIds == {<<"lc", n>> : n \in Oids} \cup {<<"uc", 1>>, <<"bad", 0>>}

\* ---------------------------------------------------------------- calendar
\* instant 0 is a Monday, 00:00:00; an instant counts half seconds, so that
\* 23:59:59 and 23:59:59.500000 of a day are different instants
TicksPerSecond == 2
TicksPerDay == 24 * 60 * 60 * TicksPerSecond
\* timedelta(days=n), timedelta(weeks=n)
days(n) == n * TicksPerDay
weeks(n) == n * 7 * TicksPerDay
\* date.weekday(): Monday is 0
weekday(t) == (t \div TicksPerDay) % 7
\* date.strftime("%Y-%m-%d"): the day the instant falls on
strftime(t) == t \div TicksPerDay
\* date.replace(hour=0, minute=0, second=0, microsecond=0)
DayStart(t) == t - (t % TicksPerDay)
\* date.replace(hour=23, minute=59, second=59, microsecond=999999): as the
\* upper end of a range it admits every instant of the day
DayEnd(t) == DayStart(t) + TicksPerDay - 1

\* ------------------------------------------------------------------- clock
\* the clock is followed for MaxTime ticks from instant 0, and for MaxTime
\* ticks from the last instant of a Sunday, weeks later
WatchStart == weeks(6) - 1
Watched == UNION {w..(w + MaxTime) : w \in {0, WatchStart}}
\* one datetime.now() read when the clock showed c
Now(c) == {t \in c..(c + 1) : t \in Watched}

\* ------------------------------------------------------------ store access
\* the document with its _id, as find_one returns it
WithId(oid, doc) == [_id |-> oid] @@ doc

task_helper(task) ==
    [id        |-> str(task._id),
     title     |-> task.title,
     dueDate   |-> task.dueDate,
     priority  |-> task.priority,
     category  |-> task.category,
     completed |-> task.completed,
     createdAt |-> task.createdAt]
    @@ Restrict(task, {"updatedAt", "userId", "notificationId"})

\* find_one({"_id": oid}) followed by Task(**task_helper(...))
FoundTask(coll, oid) == task_helper(WithId(oid, coll[oid]))

\* ------------------------------------------------------------ schema layer
\* faulty variant: the category pattern is missing
ValidTaskCreate_NoCategory(body) ==
    /\ {"title", "dueDate", "priority", "category"} \subseteq DOMAIN body
    /\ body.priority \in PRIORITIES
\* TaskCreate(**body) succeeds
ValidTaskCreate(body) ==
    /\ {"title", "dueDate", "priority", "category"} \subseteq DOMAIN body
    /\ body.priority \in PRIORITIES
    /\ body.category \in CATEGORIES

\* task_data.dict(): the declared fields only
TaskCreateDict(body) ==
    Restrict(body, {"title", "dueDate", "priority", "category", "notificationId"})

CreateInputs ==
    { [title |-> "a", dueDate |-> 1, priority |-> "high", category |-> "work"],
      [title |-> "b", dueDate |-> 2, priority |-> "low", category |-> "study",
       notificationId |-> "n1", completed |-> TRUE],
      [title |-> "a", dueDate |-> 1, priority |-> "urgent", category |-> "work"],
      [title |-> "a", dueDate |-> 1, priority |-> "medium", category |-> "hobby"],
      [title |-> "a"],
      [dueDate |-> 1, priority |-> "high", category |-> "personal"] }

Resp(status, n) == [status |-> status, dbCalls |-> n]
RespBody(status, n, body) == [status |-> status, dbCalls |-> n, body |-> body]

\* ---------------------------------------------------------------- handlers
\* POST /tasks
create_task ==
    /\ Idle
    /\ UNCHANGED <<session, inflight>>
    /\ \E body \in CreateInputs :
        /\ lastReq' = [op |-> "Create", body |-> body]
        /\ IF ~ValidTaskCreate(body)
           THEN /\ lastResp' = Resp(422, 0)
                /\ UNCHANGED <<tasks, clock, nextOid>>
           ELSE /\ nextOid <= MaxOid
                /\ \E t1 \in Now(clock) : \E t2 \in Now(t1) :
                     LET task_dict == [createdAt |-> t1, completed |-> FALSE,
                                       updatedAt |-> t2] @@ TaskCreateDict(body)
                         inserted_id == nextOid
                         stored == (inserted_id :> task_dict) @@ tasks
                     IN /\ tasks' = stored
                        /\ nextOid' = nextOid + 1
                        /\ clock' = t2
                        /\ lastResp' = RespBody(200, 2, FoundTask(stored, inserted_id))

\* the query parameters pass FastAPI's parsing: completed is Optional[bool]
ValidListParams(q) == "completed" \in DOMAIN q => q.completed \in {"true", "false"}
\* faulty variant: the filters are used without the membership tests
ListQuery_Unchecked(q) ==
    Restrict(q, {"category", "priority"})
    @@
    (IF "completed" \in DOMAIN q THEN [completed |-> (q.completed = "true")] ELSE <<>>)
\* the Mongo query get_tasks builds
ListQuery(q) ==
    (IF "category" \in DOMAIN q /\ q.category # "" /\ q.category \in CATEGORIES
     THEN [category |-> q.category] ELSE <<>>)
    @@
    (IF "priority" \in DOMAIN q /\ q.priority # "" /\ q.priority \in PRIORITIES
     THEN [priority |-> q.priority] ELSE <<>>)
    @@
    (IF "completed" \in DOMAIN q THEN [completed |-> (q.completed = "true")] ELSE <<>>)

\* limit: int = 100
ListLimit(q) == IF "limit" \in DOMAIN q THEN q.limit ELSE DefaultLimit

\* a document satisfies an exact-match query
Matches(doc, query) == \A k \in DOMAIN query : k \in DOMAIN doc /\ doc[k] = query[k]

\* find(query): the _ids of the matching documents
find(coll, query) == {oid \in DOMAIN coll : Matches(coll[oid], query)}
\* faulty variant: sort("createdAt", 1)
SortedDesc_Asc(coll, oids) ==
    {s \in [1..Cardinality(oids) -> oids] :
        /\ \A i, j \in DOMAIN s : i # j => s[i] # s[j]
        /\ \A i, j \in DOMAIN s : i < j => coll[s[i]].createdAt <= coll[s[j]].createdAt}
\* sort("createdAt", -1): every order of the matching _ids with createdAt
\* descending; the order among equal createdAt is the store's choice
SortedDesc(coll, oids) ==
    {s \in [1..Cardinality(oids) -> oids] :
        /\ \A i, j \in DOMAIN s : i # j => s[i] # s[j]
        /\ \A i, j \in DOMAIN s : i < j => coll[s[i]].createdAt >= coll[s[j]].createdAt}

\* limit(n) on the cursor (0 is "no limit") and to_list(n) on the result
Limited(s, n) == IF n = 0 THEN <<>> ELSE SubSeq(s, 1, Min(n, Len(s)))

ListInputs ==
    { <<>>,
      [category |-> "work"], [category |-> "hobby"], [category |-> ""],
      [priority |-> "high"], [priority |-> "bogus"],
      [completed |-> "true"], [completed |-> "false"], [completed |-> "maybe"],
      [limit |-> 1], [limit |-> 0], [limit |-> -1],
      [category |-> "work", limit |-> 1], [category |-> "hobby", limit |-> 1],
      [category |-> "work", priority |-> "high"],
      [priority |-> "bogus", completed |-> "true"] }

\* every response get_tasks can give to the query parameters q
ListResponses(coll, q) ==
    IF ~ValidListParams(q) THEN {Resp(422, 0)}
    ELSE IF ListLimit(q) < 0 THEN {Resp(500, 0)}
    ELSE {RespBody(200, 1, [i \in DOMAIN Limited(s, ListLimit(q)) |->
                               FoundTask(coll, Limited(s, ListLimit(q))[i])]) :
             s \in SortedDesc(coll, find(coll, ListQuery(q)))}

\* GET /tasks
get_tasks ==
    /\ Idle
    /\ UNCHANGED <<session, inflight>>
    /\ \E q \in ListInputs :
        /\ lastReq' = [op |-> "List", params |-> q]
        /\ UNCHANGED <<tasks, clock, nextOid>>
        /\ lastResp' \in ListResponses(tasks, q)

\* GET /tasks/{task_id}
get_task ==
    /\ Idle
    /\ UNCHANGED <<session, inflight>>
    /\ \E task_id \in PathIds :
        /\ lastReq' = [op |-> "Get", id |-> task_id]
        /\ UNCHANGED <<tasks, clock, nextOid>>
        /\ IF ~is_valid(task_id)
           THEN lastResp' = Resp(400, 0)
           ELSE IF ObjectId(task_id) \notin DOMAIN tasks
                THEN lastResp' = Resp(404, 1)
                ELSE lastResp' = RespBody(200, 1, FoundTask(tasks, ObjectId(task_id)))
\* faulty variant: the category pattern is missing
ValidTaskUpdate_NoCategory(body) ==
    "priority" \in DOMAIN body => body.priority \in PRIORITIES
\* TaskUpdate(**body) succeeds: a supplied enum field matches its pattern
ValidTaskUpdate(body) ==
    /\ "priority" \in DOMAIN body => body.priority \in PRIORITIES
    /\ "category" \in DOMAIN body => body.category \in CATEGORIES
\* faulty variant: the raw request body is applied
UpdateData_Raw(body) == body
\* faulty variant: the updatedAt stamp is added before the emptiness check
UpdateData_Stamped(body) ==
    Restrict(body, {"title", "dueDate", "priority", "category", "completed",
                    "notificationId"}) @@ [updatedAt |-> 0]
\* {k: v for k, v in task_update.dict().items() if v is not None}
UpdateData(body) ==
    Restrict(body, {"title", "dueDate", "priority", "category", "completed",
                    "notificationId"})

UpdateBodies ==
    { <<>>,
      [completed |-> FALSE],
      [title |-> "c", priority |-> "medium", completed |-> TRUE, createdAt |-> 0] }

UpdateInputs ==
    (PathIds \X UpdateBodies)
    \cup ({<<"lc", 1>>} \X {[createdAt |-> 0], [priority |-> "urgent"],
                            [title |-> "c", category |-> "hobby"]})
    \cup {<< <<"bad", 0>>, [priority |-> "urgent"] >>}

\* PUT /tasks/{task_id}
update_task ==
    /\ Idle
    /\ UNCHANGED <<session, inflight>>
    /\ \E in \in UpdateInputs :
      LET task_id == in[1]
          body == in[2]
      IN
        /\ lastReq' = [op |-> "Update", id |-> task_id, body |-> body]
        /\ UNCHANGED nextOid
        /\ IF ~ValidTaskUpdate(body)
           THEN /\ lastResp' = Resp(422, 0)
                /\ UNCHANGED <<tasks, clock>>
           ELSE IF ~is_valid(task_id)
           THEN /\ lastResp' = Resp(400, 0)
                /\ UNCHANGED <<tasks, clock>>
           ELSE IF DOMAIN UpdateData(body) = {}
           THEN /\ lastResp' = Resp(400, 0)
                /\ UNCHANGED <<tasks, clock>>
           ELSE \E t \in Now(clock) :
                  LET update_data == [updatedAt |-> t] @@ UpdateData(body)
                      oid == ObjectId(task_id)
                      stored == (oid :> (update_data @@ tasks[oid])) @@ tasks
                  IN /\ clock' = t
                     /\ IF oid \notin DOMAIN tasks
                        THEN /\ lastResp' = Resp(404, 1)
                             /\ UNCHANGED tasks
                        ELSE /\ tasks' = stored
                             /\ lastResp' = RespBody(200, 2, FoundTask(stored, oid))
\* faulty variant: nothing is deleted
delete_one_Keep(coll, oid) == coll
\* the collection after delete_one({"_id": oid})
delete_one(coll, oid) == [o \in (DOMAIN coll) \ {oid} |-> coll[o]]

\* DELETE /tasks/{task_id}
delete_task ==
    /\ Idle
    /\ UNCHANGED <<session, inflight>>
    /\ \E task_id \in PathIds :
        /\ lastReq' = [op |-> "Delete", id |-> task_id]
        /\ UNCHANGED <<clock, nextOid>>
        /\ IF ~is_valid(task_id)
           THEN /\ lastResp' = Resp(400, 0)
                /\ UNCHANGED tasks
           ELSE IF ObjectId(task_id) \notin DOMAIN tasks
           THEN /\ lastResp' = Resp(404, 1)
                /\ UNCHANGED tasks
           ELSE /\ tasks' = delete_one(tasks, ObjectId(task_id))
                /\ lastResp' = RespBody(200, 1, [message |-> "Task deleted successfully",
                                                 taskId |-> task_id])

\* Task(**item) succeeds for one element of SyncRequest.tasks
ValidTask(item) ==
    /\ {"title", "dueDate", "priority", "category", "createdAt"} \subseteq DOMAIN item
    /\ item.priority \in PRIORITIES
    /\ item.category \in CATEGORIES

\* task.dict(): the declared fields, completed defaulting to False
TaskDict(item) ==
    Restrict(item, {"id", "title", "dueDate", "priority", "category", "completed",
                    "createdAt", "updatedAt", "userId", "notificationId"})
    @@ [completed |-> FALSE]

\* Python truthiness of task.id
Truthy(item) == "id" \in DOMAIN item /\ item.id # <<"empty", 0>>

SyncNoId  == [title |-> "s", dueDate |-> 1, priority |-> "medium",
               category |-> "personal", createdAt |-> 0]
SyncClientId == [id |-> <<"uc", 101>>, title |-> "s", dueDate |-> 2, priority |-> "high",
                 category |-> "work", completed |-> TRUE, createdAt |-> 1,
                 userId |-> "u1"]
SyncServerId == [id |-> <<"lc", 1>>, title |-> "s", dueDate |-> 1, priority |-> "low",
                 category |-> "study", createdAt |-> 1]
SyncBadId == [id |-> <<"bad", 0>>, title |-> "s", dueDate |-> 1, priority |-> "medium",
              category |-> "personal", createdAt |-> 0]
SyncEmptyId == [id |-> <<"empty", 0>>, title |-> "s", dueDate |-> 2, priority |-> "low",
                category |-> "study", createdAt |-> 1]
SyncBadEnum == [title |-> "s", dueDate |-> 1, priority |-> "urgent", category |-> "work",
                createdAt |-> 0]
SyncNoCreatedAt == [title |-> "s", dueDate |-> 1, priority |-> "high", category |-> "work"]

SyncInputs ==
    { <<>>, <<SyncNoId>>, <<SyncClientId>>, <<SyncServerId>>, <<SyncBadId>>,
      <<SyncEmptyId>>,
      <<SyncNoId, SyncClientId>>, <<SyncClientId, SyncServerId>>,
      <<SyncNoId, SyncNoId>>, <<SyncClientId, SyncClientId>>,
      <<SyncClientId, SyncNoId, SyncClientId>>,
      <<SyncBadEnum>>, <<SyncNoId, SyncNoCreatedAt>> }

\* the document sync_tasks builds for one task, and the _id it carries if any
SyncDoc(item, current_time) ==
    LET task_dict == [updatedAt |-> current_time] @@ TaskDict(item)
    IN IF Truthy(item) /\ ~is_valid(item.id) THEN Without(task_dict, "id") ELSE task_dict

\* faulty variant: the supplied id is never used
HasOid_Never(item) == FALSE
\* the task carries an id that becomes the document's _id
HasOid(item) == Truthy(item) /\ is_valid(item.id)

\* the insert loop of sync_tasks from the k-th task on; st is the loop state:
\* the collection, the driver's next ObjectId, server_tasks, the store calls
\* made, and whether a call raised: insert_one raises DuplicateKeyError on an
\* _id the collection holds, and the call numbered failAt (0: none) raises
\* because the store fails
RECURSIVE SyncLoop(_, _, _, _)
SyncLoop(items, k, current_time, st) ==
    IF k > Len(items) \/ ~st.ok THEN st
    ELSE LET item == items[k]
             oid == IF HasOid(item) THEN ObjectId(item.id) ELSE st.next
             coll == (oid :> SyncDoc(item, current_time)) @@ st.coll
             next == IF HasOid(item) THEN st.next ELSE st.next + 1
         IN IF oid \in DOMAIN st.coll \/ st.calls + 1 = st.failAt
            THEN [st EXCEPT !.ok = FALSE, !.calls = @ + 1]
            ELSE IF st.calls + 2 = st.failAt
            THEN [st EXCEPT !.coll = coll, !.next = next, !.ok = FALSE, !.calls = @ + 2]
            ELSE SyncLoop(items, k + 1, current_time,
                          [coll   |-> coll,
                           next   |-> next,
                           out    |-> Append(st.out, FoundTask(coll, oid)),
                           calls  |-> st.calls + 2,
                           ok     |-> TRUE,
                           failAt |-> st.failAt])
\* faulty variant: the collection is not cleared
delete_many_Keep(coll) == coll
\* the collection after delete_many({})
delete_many(coll) == <<>>

\* the ObjectIds the driver has to generate for the list
FreshNeeded(items) == Cardinality({k \in 1..Len(items) : ~HasOid(items[k])})

\* POST /tasks/sync
sync_tasks ==
    /\ Idle
    /\ UNCHANGED <<session, inflight>>
    /\ \E items \in SyncInputs :
        /\ lastReq' = [op |-> "Sync", tasks |-> items]
        /\ IF \E k \in 1..Len(items) : ~ValidTask(items[k])
           THEN /\ lastResp' = Resp(422, 0)
                /\ UNCHANGED <<tasks, clock, nextOid>>
           ELSE /\ nextOid + FreshNeeded(items) <= MaxOid + 1
                /\ \A k \in 1..Len(items) :
                      HasOid(items[k]) =>
                         ObjectId(items[k].id) \in ClientOids \/ ObjectId(items[k].id) < nextOid
                /\ \E current_time \in Now(clock) :
                     LET st == SyncLoop(items, 1, current_time,
                                        [coll |-> delete_many(tasks), next |-> nextOid,
                                         out |-> <<>>,
                                         calls |-> 1, ok |-> TRUE, failAt |-> 0])
                     IN /\ clock' = current_time
                        /\ tasks' = st.coll
                        /\ nextOid' = st.next
                        /\ lastResp' = IF st.ok
                                       THEN RespBody(200, st.calls,
                                                     [tasks |-> st.out, conflicts |-> <<>>,
                                                      syncTime |-> current_time])
                                       ELSE Resp(500, st.calls)

\* n successive datetime.now() reads, the first when the clock showed c
RECURSIVE ClockReads(_, _)
ClockReads(c, n) ==
    IF n = 0 THEN {<<>>}
    ELSE UNION {{<<t>> \o r : r \in ClockReads(t, n - 1)} : t \in Now(c)}

\* --------------------------------------------------------------- analytics
TrendDays == 7
TrendWeeks == 4

\* a document meets the comparison operators ($gte, $lte, $lt) a filter puts
\* on its fields
InRange(doc, range) ==
    \A k \in DOMAIN range :
        /\ "gte" \in DOMAIN range[k] => doc[k] >= range[k].gte
        /\ "lte" \in DOMAIN range[k] => doc[k] <= range[k].lte
        /\ "lt" \in DOMAIN range[k] => doc[k] < range[k].lt

\* count_documents(filter): query holds the filter's equalities, range its
\* comparison operators
count_documents(coll, query, range) ==
    Cardinality({oid \in DOMAIN coll :
                    Matches(coll[oid], query) /\ InRange(coll[oid], range)})

\* aggregate([{"$group": {"_id": "$field", "total": ..., "completed": ...}}]):
\* one bucket per distinct value of the field
aggregate(coll, field) ==
    { [_id       |-> v,
       total     |-> count_documents(coll, field :> v, <<>>),
       completed |-> count_documents(coll, field :> v @@ "completed" :> TRUE, <<>>)] :
      v \in {coll[oid][field] : oid \in DOMAIN coll} }

\* round(n / d, 0) for d > 0: to the nearest integer, a tie to the even one
RoundHalfEven(n, d) ==
    LET q == n \div d
        r == n % d
    IN IF 2 * r > d \/ (2 * r = d /\ q % 2 = 1) THEN q + 1 ELSE q
\* faulty variant: an empty denominator counts as fully completed
Rate_EmptyIsFull(part, whole) ==
    IF whole > 0 THEN RoundHalfEven(1000 * part, whole) ELSE 1000
\* round((part / whole * 100) if whole > 0 else 0, 1), in tenths of a percent
Rate(part, whole) == IF whole > 0 THEN RoundHalfEven(1000 * part, whole) ELSE 0
\* (part / whole * 100) if whole > 0 else 0, not rounded: a fraction
RawRate(part, whole) ==
    IF whole > 0 THEN [num |-> 100 * part, den |-> whole] ELSE [num |-> 0, den |-> 1]

\* faulty variant: pending repeats the total
BucketStats_PendingTotal(item) ==
    [total          |-> item.total,
     completed      |-> item.completed,
     pending        |-> item.total,
     completionRate |-> Rate(item.completed, item.total)]
\* the value of one categoryStats / priorityStats entry
BucketStats(item) ==
    [total          |-> item.total,
     completed      |-> item.completed,
     pending        |-> item.total - item.completed,
     completionRate |-> Rate(item.completed, item.total)]

\* one dailyTrends entry: the day of the instant date
DailyStat(coll, date) ==
    LET day_start == DayStart(date)
        day_end == DayEnd(date)
        InDay == [createdAt |-> [gte |-> day_start, lte |-> day_end]]
        day_total == count_documents(coll, <<>>, InDay)
        day_completed == count_documents(coll, [completed |-> TRUE], InDay)
    IN [date           |-> strftime(date),
        day            |-> weekday(date),
        created        |-> day_total,
        completed      |-> day_completed,
        completionRate |-> RawRate(day_completed, day_total)]

\* list(reversed(s))
reversed(s) == [i \in 1..Len(s) |-> s[Len(s) + 1 - i]]

\* the categories max(categories, key=...) / min(categories, key=...) can
\* return: a bucket with the largest / smallest completed count, the first
\* of them in the order the store lists the buckets
MaxBy(buckets) == {b._id : b \in {x \in buckets : \A y \in buckets : y.completed <= x.completed}}
MinBy(buckets) == {b._id : b \in {x \in buckets : \A y \in buckets : y.completed >= x.completed}}

\* the overview of the report from the three counts and the instants read
Overview(total_tasks, completed_tasks, overdue_tasks, today_tasks, week_tasks) ==
    [totalTasks     |-> total_tasks,
     completedTasks |-> completed_tasks,
     pendingTasks   |-> total_tasks - completed_tasks,
     overdueTask    |-> overdue_tasks,
     todayTasks     |-> today_tasks,
     weekTasks      |-> week_tasks,
     completionRate |-> Rate(completed_tasks, total_tasks)]

\* productivityScore, in tenths
ProductivityScore(total_tasks, completed_tasks, overdue_tasks) ==
    LET bonus == IF overdue_tasks = 0 THEN 10 ELSE -overdue_tasks * 2
    IN IF total_tasks > 0
       THEN RoundHalfEven(1000 * completed_tasks + 10 * bonus * total_tasks, total_tasks)
       ELSE 10 * bonus

\* count_documents({"completed": False, "dueDate": {"$lt": current_time}})
OverdueCount(coll, current_time) ==
    count_documents(coll, [completed |-> FALSE], [dueDate |-> [lt |-> current_time]])

\* every report get_stats can return when its first three counts gave
\* total_tasks, completed_tasks and overdue_tasks, its later store calls read
\* the collection coll, and its datetime.now() reads give r[1] .. r[15]
StatsReportsFrom(total_tasks, completed_tasks, overdue_tasks, coll, r) ==
    LET today_start == DayStart(r[2])
        today_end == DayEnd(r[3])
        today_tasks == count_documents(coll, <<>>,
                            [dueDate |-> [gte |-> today_start, lte |-> today_end]])
        week_start == DayStart(r[4] - days(weekday(r[5])))
        week_end == DayEnd(r[6] + days(6 - weekday(r[7])))
        week_tasks == count_documents(coll, <<>>,
                            [dueDate |-> [gte |-> week_start, lte |-> week_end]])
        categories == aggregate(coll, "category")
        priorities == aggregate(coll, "priority")
        daily_stats == [i \in 1..TrendDays |-> DailyStat(coll, r[7 + i] - days(i - 1))]
        insights == [averageTasksPerDay |-> RoundHalfEven(10 * total_tasks, 7),
                     streak             |-> 0,
                     productivityScore  |->
                        ProductivityScore(total_tasks, completed_tasks, overdue_tasks)]
    IN { [overview      |-> Overview(total_tasks, completed_tasks, overdue_tasks,
                                     today_tasks, week_tasks),
          categoryStats |-> [c \in {b._id : b \in categories} |->
                               BucketStats(CHOOSE b \in categories : b._id = c)],
          priorityStats |-> [p \in {b._id : b \in priorities} |->
                               BucketStats(CHOOSE b \in priorities : b._id = p)],
          dailyTrends   |-> reversed(daily_stats),
          insights      |-> IF categories = {} THEN insights
                            ELSE [mostProductiveCategory  |-> most,
                                  leastProductiveCategory |-> least] @@ insights,
          timestamp     |-> r[15]] :
         most \in (IF categories = {} THEN {"none"} ELSE MaxBy(categories)),
         least \in (IF categories = {} THEN {"none"} ELSE MinBy(categories)) }

\* the reports of a get_stats that runs alone over the collection coll
StatsReports(coll, r) ==
    StatsReportsFrom(count_documents(coll, <<>>, <<>>),
                     count_documents(coll, [completed |-> TRUE], <<>>),
                     OverdueCount(coll, r[1]), coll, r)

\* GET /stats: 21 store calls, 15 clock reads
get_stats ==
    /\ Idle
    /\ UNCHANGED <<session, inflight>>
    /\ lastReq' = [op |-> "Stats"]
    /\ UNCHANGED <<tasks, nextOid>>
    /\ \E r \in ClockReads(clock, 15) :
        /\ clock' = r[15]
        /\ \E report \in StatsReports(tasks, r) :
              lastResp' = RespBody(200, 21, report)

\* one weeklyTrends entry: the week that lies `week` weeks before the instant
\* base, base and the weekday taken from two clock reads
WeeklyStat(coll, week, base, weekday_at) ==
    LET week_start == DayStart(base - weeks(week) - days(weekday(weekday_at)))
        week_end == week_start + days(6) + (23 * 60 * 60 + 59 * 60 + 59) * TicksPerSecond
        InWeek == [createdAt |-> [gte |-> week_start, lte |-> week_end]]
        week_tasks == count_documents(coll, <<>>, InWeek)
        week_completed == count_documents(coll, [completed |-> TRUE], InWeek)
    IN [week           |-> TrendWeeks - week,
        startDate      |-> strftime(week_start),
        created        |-> week_tasks,
        completed      |-> week_completed,
        completionRate |-> Rate(week_completed, week_tasks)]

\* the report of get_productivity_analytics when its datetime.now() reads
\* give the instants r[1] .. r[9]
ProductivityReport(coll, r) ==
    [weeklyTrends |-> reversed([i \in 1..TrendWeeks |->
                                  WeeklyStat(coll, i - 1, r[2 * i - 1], r[2 * i])]),
     timestamp    |-> r[2 * TrendWeeks + 1]]

\* GET /analytics/productivity: 8 store calls, 9 clock reads
get_productivity_analytics ==
    /\ Idle
    /\ UNCHANGED <<session, inflight>>
    /\ lastReq' = [op |-> "Productivity", at |-> clock]
    /\ UNCHANGED <<tasks, nextOid>>
    /\ \E r \in ClockReads(clock, 2 * TrendWeeks + 1) :
        /\ clock' = r[2 * TrendWeeks + 1]
        /\ lastResp' = RespBody(200, 2 * TrendWeeks, ProductivityReport(tasks, r))

\* ------------------------------------------------------------ store failure
\* GET /health
health_check ==
    /\ Idle
    /\ UNCHANGED <<session, inflight>>
    /\ lastReq' = [op |-> "Health"]
    /\ UNCHANGED <<tasks, nextOid>>
    /\ \E t \in Now(clock) :
        /\ clock' = t
        /\ lastResp' = RespBody(200, 1, [status |-> "healthy", database |-> "connected",
                                         timestamp |-> t])
\* faulty variant: the health check answers like every other handler
StoreFailureStatus_Always500(op) == 500
\* the status the handler's "except Exception" clause gives a store failure
StoreFailureStatus(op) == IF op = "Health" THEN 503 ELSE 500

\* the response to a request whose store call number k raised
Failed(op, k) == Resp(StoreFailureStatus(op), k)

\* GET /health when find_one raises
health_check_fails ==
    /\ Idle
    /\ UNCHANGED <<session, inflight>>
    /\ lastReq' = [op |-> "Health", fails |-> 1]
    /\ UNCHANGED <<tasks, clock, nextOid>>
    /\ lastResp' = Failed("Health", 1)

\* POST /tasks when insert_one (k = 1) or find_one (k = 2) raises
create_task_fails ==
    /\ Idle
    /\ UNCHANGED <<session, inflight>>
    /\ \E body \in CreateInputs, k \in 1..2 :
        /\ ValidTaskCreate(body)
        /\ lastReq' = [op |-> "Create", body |-> body, fails |-> k]
        /\ lastResp' = Failed("Create", k)
        /\ \E t1 \in Now(clock) : \E t2 \in Now(t1) :
             LET task_dict == [createdAt |-> t1, completed |-> FALSE,
                               updatedAt |-> t2] @@ TaskCreateDict(body)
             IN /\ clock' = t2
                /\ IF k = 1
                   THEN UNCHANGED <<tasks, nextOid>>
                   ELSE /\ nextOid <= MaxOid
                        /\ tasks' = (nextOid :> task_dict) @@ tasks
                        /\ nextOid' = nextOid + 1

\* GET /tasks when the find cursor raises
get_tasks_fails ==
    /\ Idle
    /\ UNCHANGED <<session, inflight>>
    /\ \E q \in {<<>>, [category |-> "work", limit |-> 1]} :
        /\ ValidListParams(q) /\ ListLimit(q) >= 0
        /\ lastReq' = [op |-> "List", params |-> q, fails |-> 1]
        /\ UNCHANGED <<tasks, clock, nextOid>>
        /\ lastResp' = Failed("List", 1)

\* GET /tasks/{task_id} when find_one raises
get_task_fails ==
    /\ Idle
    /\ UNCHANGED <<session, inflight>>
    /\ \E task_id \in PathIds :
        /\ is_valid(task_id)
        /\ lastReq' = [op |-> "Get", id |-> task_id, fails |-> 1]
        /\ UNCHANGED <<tasks, clock, nextOid>>
        /\ lastResp' = Failed("Get", 1)

\* PUT /tasks/{task_id} when update_one (k = 1) or find_one (k = 2) raises
update_task_fails ==
    /\ Idle
    /\ UNCHANGED <<session, inflight>>
    /\ \E in \in UpdateInputs, k \in 1..2 :
      LET task_id == in[1]
          body == in[2]
          oid == ObjectId(task_id)
      IN
        /\ ValidTaskUpdate(body) /\ is_valid(task_id) /\ DOMAIN UpdateData(body) # {}
        /\ k = 2 => oid \in DOMAIN tasks
        /\ lastReq' = [op |-> "Update", id |-> task_id, body |-> body, fails |-> k]
        /\ lastResp' = Failed("Update", k)
        /\ UNCHANGED nextOid
        /\ \E t \in Now(clock) :
             LET update_data == [updatedAt |-> t] @@ UpdateData(body)
             IN /\ clock' = t
                /\ IF k = 1
                   THEN UNCHANGED tasks
                   ELSE tasks' = (oid :> (update_data @@ tasks[oid])) @@ tasks

\* DELETE /tasks/{task_id} when delete_one raises
delete_task_fails ==
    /\ Idle
    /\ UNCHANGED <<session, inflight>>
    /\ \E task_id \in PathIds :
        /\ is_valid(task_id)
        /\ lastReq' = [op |-> "Delete", id |-> task_id, fails |-> 1]
        /\ UNCHANGED <<tasks, clock, nextOid>>
        /\ lastResp' = Failed("Delete", 1)

\* POST /tasks/sync when delete_many (k = 1), the insert_one of task i
\* (k = 2i) or its find_one (k = 2i + 1) raises
sync_tasks_fails ==
    /\ Idle
    /\ UNCHANGED <<session, inflight>>
    /\ \E items \in SyncInputs :
        /\ \A i \in 1..Len(items) : ValidTask(items[i])
        /\ nextOid + FreshNeeded(items) <= MaxOid + 1
        /\ \A i \in 1..Len(items) :
              HasOid(items[i]) =>
                 ObjectId(items[i].id) \in ClientOids \/ ObjectId(items[i].id) < nextOid
        /\ \E k \in 1..(1 + 2 * Len(items)), current_time \in Now(clock) :
             LET st == SyncLoop(items, 1, current_time,
                                [coll |-> delete_many(tasks), next |-> nextOid,
                                 out |-> <<>>,
                                 calls |-> 1, ok |-> TRUE, failAt |-> k])
             IN /\ lastReq' = [op |-> "Sync", tasks |-> items, fails |-> k]
                /\ lastResp' = Failed("Sync", k)
                /\ clock' = current_time
                /\ IF k = 1
                   THEN UNCHANGED <<tasks, nextOid>>
                   ELSE /\ ~st.ok /\ st.calls = k
                        /\ tasks' = st.coll
                        /\ nextOid' = st.next

\* the datetime.now() reads get_stats makes before its store call number k
StatsReadsBefore(k) ==
    IF k <= 2 THEN 0
    ELSE IF k = 3 THEN 1
    ELSE IF k = 4 THEN 3
    ELSE IF k <= 7 THEN 7
    ELSE 7 + ((k - 6) \div 2)

\* the store calls of get_stats taken to fail: the first count, the overdue
\* count, an aggregate, the first and the last count of the daily trend
StatsFailPoints == {1, 3, 6, 8, 21}

\* GET /stats when its store call number k raises
get_stats_fails ==
    /\ Idle
    /\ UNCHANGED <<session, inflight>>
    /\ UNCHANGED <<tasks, nextOid>>
    /\ \E k \in StatsFailPoints :
        /\ lastReq' = [op |-> "Stats", fails |-> k]
        /\ lastResp' = Failed("Stats", k)
        /\ \E r \in ClockReads(clock, StatsReadsBefore(k)) :
              clock' = IF r = <<>> THEN clock ELSE r[Len(r)]

\* the store calls of get_productivity_analytics taken to fail: the two
\* counts of the first week and the last count of the last week
ProductivityFailPoints == {1, 2, 2 * TrendWeeks}

\* GET /analytics/productivity when its store call number k raises
get_productivity_analytics_fails ==
    /\ Idle
    /\ UNCHANGED <<session, inflight>>
    /\ UNCHANGED <<tasks, nextOid>>
    /\ \E k \in ProductivityFailPoints :
        /\ lastReq' = [op |-> "Productivity", fails |-> k]
        /\ lastResp' = Failed("Productivity", k)
        /\ \E r \in ClockReads(clock, 2 * ((k + 1) \div 2)) :
              clock' = r[Len(r)]

\* ------------------------------------------------------ overlapping requests
\* The handlers are coroutines: a handler runs alone between two awaits, and
\* each await is one store call, which the store executes atomically.  A step
\* below is one store call of one handler, with the code that leads up to
\* it; the code after the last store call builds the response.  A handler
\* with a single store call (get_tasks, get_task, delete_task) is one step.

\* the requests the two clients send
ConcCreateInputs == {[title |-> "a", dueDate |-> 1, priority |-> "high", category |-> "work"]}
ConcUpdateInputs == {<< <<"lc", 1>>, [completed |-> TRUE] >>}
ConcSyncInputs == {<<SyncClientId>>, <<SyncNoId>>}
ConcPathIds == {<<"lc", 1>>, <<"lc", 101>>}
\* c1 edits and synchronises, c2 synchronises and asks for the statistics
Sends(c) == IF c = "c1" THEN {"Create", "Update", "Sync"} ELSE {"Sync", "Stats"}

\* the handler of client c moves to the state h / returns
Goto(c, h) == inflight' = [inflight EXCEPT ![c] = h]
Return(c, req, resp) ==
    /\ inflight' = [inflight EXCEPT ![c] = NoHandler]
    /\ lastReq' = req
    /\ lastResp' = resp

\* create_task up to insert_one (line 108)
create_insert(c) ==
    /\ Idle /\ inflight[c] = NoHandler /\ "Create" \in Sends(c)
    /\ \E body \in ConcCreateInputs :
        /\ ValidTaskCreate(body)
        /\ nextOid <= MaxOid
        /\ \E t1 \in Now(clock) : \E t2 \in Now(t1) :
             LET task_dict == [createdAt |-> t1, completed |-> FALSE,
                               updatedAt |-> t2] @@ TaskCreateDict(body)
             IN /\ tasks' = (nextOid :> task_dict) @@ tasks
                /\ nextOid' = nextOid + 1
                /\ clock' = t2
                /\ Goto(c, [op |-> "Create", pc |-> "find_one", body |-> body,
                            inserted_id |-> nextOid, task_dict |-> task_dict])
    /\ UNCHANGED <<lastReq, lastResp, session>>

\* find_one(...) of a document that may be gone: task_helper(None) raises
\* TypeError, which the handler's except clause turns into 500
ReadBack(coll, oid, calls) ==
    IF oid \in DOMAIN coll THEN RespBody(200, calls, FoundTask(coll, oid))
    ELSE Resp(500, calls)

\* create_task from find_one (line 109) to the response
create_find(c) ==
    /\ Idle /\ inflight[c].op = "Create"
    /\ Return(c, [op |-> "Create", body |-> inflight[c].body, client |-> c],
              ReadBack(tasks, inflight[c].inserted_id, 2))
    /\ UNCHANGED <<tasks, clock, nextOid, session>>

\* update_task up to update_one (line 170), for a request that passes the
\* checks of lines 161-166
update_write(c) ==
    /\ Idle /\ inflight[c] = NoHandler /\ "Update" \in Sends(c)
    /\ \E in \in ConcUpdateInputs :
      LET task_id == in[1]
          body == in[2]
          oid == ObjectId(task_id)
      IN
        /\ ValidTaskUpdate(body) /\ is_valid(task_id) /\ DOMAIN UpdateData(body) # {}
        /\ \E t \in Now(clock) :
             LET update_data == [updatedAt |-> t] @@ UpdateData(body)
             IN /\ clock' = t
                /\ IF oid \notin DOMAIN tasks
                   THEN /\ Return(c, [op |-> "Update", id |-> task_id, body |-> body,
                                      client |-> c], Resp(404, 1))
                        /\ UNCHANGED tasks
                   ELSE /\ tasks' = (oid :> (update_data @@ tasks[oid])) @@ tasks
                        /\ Goto(c, [op |-> "Update", pc |-> "find_one", id |-> task_id,
                                    body |-> body, update_data |-> update_data])
                        /\ UNCHANGED <<lastReq, lastResp>>
    /\ UNCHANGED <<nextOid, session>>

\* update_task from find_one (line 178) to the response
update_find(c) ==
    /\ Idle /\ inflight[c].op = "Update"
    /\ Return(c, [op |-> "Update", id |-> inflight[c].id, body |-> inflight[c].body,
                  client |-> c],
              ReadBack(tasks, ObjectId(inflight[c].id), 2))
    /\ UNCHANGED <<tasks, clock, nextOid, session>>

\* sync_tasks up to delete_many (line 215); deleted is the number of
\* documents the call removed
sync_delete(c) ==
    /\ Idle /\ inflight[c] = NoHandler /\ "Sync" \in Sends(c)
    /\ \E items \in ConcSyncInputs :
        /\ \A i \in 1..Len(items) : ValidTask(items[i])
        /\ \A i \in 1..Len(items) :
              HasOid(items[i]) =>
                 ObjectId(items[i].id) \in ClientOids \/ ObjectId(items[i].id) < nextOid
        /\ \E current_time \in Now(clock) :
             /\ clock' = current_time
             /\ tasks' = delete_many(tasks)
             /\ Goto(c, [op |-> "Sync", pc |-> IF items = <<>> THEN "return" ELSE "insert_one",
                         items |-> items, k |-> 1, current_time |-> current_time,
                         server_tasks |-> <<>>, calls |-> 1,
                         deleted |-> Cardinality(DOMAIN tasks)])
    /\ UNCHANGED <<nextOid, lastReq, lastResp, session>>

\* sync_tasks: the insert_one of the k-th task (line 231)
sync_insert(c) ==
    /\ Idle /\ inflight[c].op = "Sync" /\ inflight[c].pc = "insert_one"
    /\ LET h == inflight[c]
           item == h.items[h.k]
           oid == IF HasOid(item) THEN ObjectId(item.id) ELSE nextOid
       IN /\ HasOid(item) \/ nextOid <= MaxOid
          /\ IF oid \in DOMAIN tasks
             THEN /\ Return(c, [op |-> "Sync", tasks |-> h.items, client |-> c],
                            Resp(500, h.calls + 1))
                  /\ UNCHANGED <<tasks, nextOid>>
             ELSE /\ tasks' = (oid :> SyncDoc(item, h.current_time)) @@ tasks
                  /\ nextOid' = IF HasOid(item) THEN nextOid ELSE nextOid + 1
                  /\ Goto(c, [h EXCEPT !.pc = "find_one", !.calls = @ + 1]
                             @@ [inserted_id |-> oid])
                  /\ UNCHANGED <<lastReq, lastResp>>
    /\ UNCHANGED <<clock, session>>

\* sync_tasks: the find_one of the k-th task (lines 232-233)
sync_find(c) ==
    /\ Idle /\ inflight[c].op = "Sync" /\ inflight[c].pc = "find_one"
    /\ LET h == inflight[c]
       IN IF h.inserted_id \notin DOMAIN tasks
          THEN Return(c, [op |-> "Sync", tasks |-> h.items, client |-> c],
                      Resp(500, h.calls + 1))
          ELSE /\ Goto(c, [op |-> "Sync",
                           pc |-> IF h.k = Len(h.items) THEN "return" ELSE "insert_one",
                           items |-> h.items, k |-> h.k + 1,
                           current_time |-> h.current_time,
                           server_tasks |-> Append(h.server_tasks,
                                                   FoundTask(tasks, h.inserted_id)),
                           calls |-> h.calls + 1, deleted |-> h.deleted])
               /\ UNCHANGED <<lastReq, lastResp>>
    /\ UNCHANGED <<tasks, clock, nextOid, session>>

\* sync_tasks: the return of lines 235-239
sync_return(c) ==
    /\ Idle /\ inflight[c].op = "Sync" /\ inflight[c].pc = "return"
    /\ LET h == inflight[c]
       IN Return(c, [op |-> "Sync", tasks |-> h.items, client |-> c],
                 RespBody(200, h.calls, [tasks |-> h.server_tasks, conflicts |-> <<>>,
                                         syncTime |-> h.current_time]))
    /\ UNCHANGED <<tasks, clock, nextOid, session>>

\* get_stats: count_documents({}) (line 248)
stats_total(c) ==
    /\ Idle /\ inflight[c] = NoHandler /\ "Stats" \in Sends(c)
    /\ Goto(c, [op |-> "Stats", pc |-> "completed",
                total_tasks |-> count_documents(tasks, <<>>, <<>>)])
    /\ UNCHANGED <<tasks, clock, nextOid, lastReq, lastResp, session>>

\* get_stats: count_documents({"completed": True}) (line 249)
stats_completed(c) ==
    /\ Idle /\ inflight[c].op = "Stats" /\ inflight[c].pc = "completed"
    /\ Goto(c, [op |-> "Stats", pc |-> "overdue",
                total_tasks |-> inflight[c].total_tasks,
                completed_tasks |-> count_documents(tasks, [completed |-> TRUE], <<>>)])
    /\ UNCHANGED <<tasks, clock, nextOid, lastReq, lastResp, session>>

\* get_stats: the overdue count (lines 253-257)
stats_overdue(c) ==
    /\ Idle /\ inflight[c].op = "Stats" /\ inflight[c].pc = "overdue"
    /\ \E current_time \in Now(clock) :
        /\ clock' = current_time
        /\ Goto(c, [op |-> "Stats", pc |-> "rest",
                    total_tasks |-> inflight[c].total_tasks,
                    completed_tasks |-> inflight[c].completed_tasks,
                    current_time |-> current_time,
                    overdue_tasks |-> OverdueCount(tasks, current_time)])
    /\ UNCHANGED <<tasks, nextOid, lastReq, lastResp, session>>

\* get_stats: the store calls of lines 260-296, taken together, and the
\* response
stats_rest(c) ==
    /\ Idle /\ inflight[c].op = "Stats" /\ inflight[c].pc = "rest"
    /\ \E r \in ClockReads(clock, 14) :
        /\ clock' = r[14]
        /\ \E report \in StatsReportsFrom(inflight[c].total_tasks,
                                          inflight[c].completed_tasks,
                                          inflight[c].overdue_tasks, tasks,
                                          <<inflight[c].current_time>> \o r) :
              Return(c, [op |-> "Stats", client |-> c], RespBody(200, 21, report))
    /\ UNCHANGED <<tasks, nextOid, session>>

\* get_tasks without filters: its one store call and the response
list_call ==
    /\ Idle
    /\ lastReq' = [op |-> "List", params |-> <<>>]
    /\ lastResp' \in ListResponses(tasks, <<>>)
    /\ UNCHANGED <<tasks, clock, nextOid, session, inflight>>

\* get_task: its one store call and the response
get_call ==
    /\ Idle
    /\ \E task_id \in ConcPathIds :
        /\ lastReq' = [op |-> "Get", id |-> task_id]
        /\ lastResp' = IF ObjectId(task_id) \notin DOMAIN tasks THEN Resp(404, 1)
                       ELSE RespBody(200, 1, FoundTask(tasks, ObjectId(task_id)))
    /\ UNCHANGED <<tasks, clock, nextOid, session, inflight>>

\* delete_task: its one store call and the response
delete_call ==
    /\ Idle
    /\ \E task_id \in ConcPathIds :
        /\ lastReq' = [op |-> "Delete", id |-> task_id]
        /\ IF ObjectId(task_id) \notin DOMAIN tasks
           THEN /\ lastResp' = Resp(404, 1)
                /\ UNCHANGED tasks
           ELSE /\ tasks' = delete_one(tasks, ObjectId(task_id))
                /\ lastResp' = RespBody(200, 1, [message |-> "Task deleted successfully",
                                                 taskId |-> task_id])
    /\ UNCHANGED <<clock, nextOid, session, inflight>>

\* the exchange ends: the client has the response, and keeps the id (and
\* the input) of a record it created, or the id of a record it deleted
Remember(req, resp) ==
    IF resp.status = 200 /\ req.op = "Create"
    THEN [op |-> "Create", id |-> resp.body.id, body |-> req.body]
    ELSE IF resp.status = 200 /\ req.op = "Delete"
    THEN [op |-> "Delete", id |-> req.id]
    ELSE [op |-> "none"]

complete ==
    /\ ~Idle
    /\ session' = Remember(lastReq, lastResp)
    /\ lastReq' = [op |-> "none"]
    /\ lastResp' = Resp(0, 0)
    /\ UNCHANGED <<tasks, clock, nextOid, inflight>>

\* the exchange ends with a client that keeps nothing of it
forget ==
    /\ ~Idle
    /\ session' = [op |-> "none"]
    /\ lastReq' = [op |-> "none"]
    /\ lastResp' = Resp(0, 0)
    /\ UNCHANGED <<tasks, clock, nextOid, inflight>>

Init ==
    /\ tasks = <<>>
    /\ clock = 0
    /\ nextOid = 1
    /\ lastReq = [op |-> "none"]
    /\ lastResp = Resp(0, 0)
    /\ session = [op |-> "none"]
    /\ inflight = [c \in Clients |-> NoHandler]

Next ==
    \/ create_task
    \/ get_tasks
    \/ get_task
    \/ update_task
    \/ delete_task
    \/ sync_tasks
    \/ complete

Spec == Init /\ [][Next]_vars

\* the analytics endpoints over the collections the write requests build
NextStats ==
    \/ create_task
    \/ delete_task
    \/ sync_tasks
    \/ get_stats
    \/ get_productivity_analytics
    \/ complete

SpecStats == Init /\ [][NextStats]_vars

\* the handlers over a store whose calls can fail; the List, Stats and
\* productivity requests that do not fail change nothing and are left to Spec
\* and SpecStats
NextFault ==
    \/ health_check
    \/ create_task
    \/ get_task
    \/ update_task
    \/ delete_task
    \/ sync_tasks
    \/ health_check_fails
    \/ create_task_fails
    \/ get_tasks_fails
    \/ get_task_fails
    \/ update_task_fails
    \/ delete_task_fails
    \/ sync_tasks_fails
    \/ get_stats_fails
    \/ get_productivity_analytics_fails
    \/ forget

SpecFault == Init /\ [][NextFault]_vars

\* requests of two clients that overlap
NextConc ==
    \/ \E c \in Clients :
          \/ create_insert(c)
          \/ create_find(c)
          \/ update_write(c)
          \/ update_find(c)
          \/ sync_delete(c)
          \/ sync_insert(c)
          \/ sync_find(c)
          \/ sync_return(c)
          \/ stats_total(c)
          \/ stats_completed(c)
          \/ stats_overdue(c)
          \/ stats_rest(c)
    \/ list_call
    \/ get_call
    \/ delete_call
    \/ forget

SpecConc == Init /\ [][NextConc]_vars

\* the weekly trend over collections whose tasks were created around the
\* ends of the weeks before WatchStart
WeekInstants ==
    {weeks(2) - 1, weeks(4), weeks(5) - TicksPerSecond, weeks(5) - 1, weeks(5) + days(2)}
WeekTask(t, done) ==
    [title |-> "s", dueDate |-> t, priority |-> "medium", category |-> "personal",
     completed |-> done, createdAt |-> t, updatedAt |-> t]
InitWeeks ==
    /\ \E s \in UNION {[1..n -> WeekInstants \X BOOLEAN] : n \in 0..2} :
          /\ tasks = [oid \in DOMAIN s |-> WeekTask(s[oid][1], s[oid][2])]
          /\ nextOid = Len(s) + 1
    /\ clock = WatchStart
    /\ lastReq = [op |-> "none"]
    /\ lastResp = Resp(0, 0)
    /\ session = [op |-> "none"]
    /\ inflight = [c \in Clients |-> NoHandler]

NextWeeks ==
    \/ get_productivity_analytics
    \/ forget

SpecWeeks == InitWeeks /\ [][NextWeeks]_vars

\* ------------------------------------------------------------------ claims
\* vocabulary of the claims, stated without the handlers' own definitions
WellFormed(id) == id[1] \in {"lc", "uc"}
OidOf(id) == id[2]
IsOp(req, op) == req.op = op
EnumFieldsValid(r) ==
    /\ "priority" \in DOMAIN r => r.priority \in {"high", "medium", "low"}
    /\ "category" \in DOMAIN r => r.category \in {"work", "personal", "study"}
InputFields == {"title", "dueDate", "priority", "category", "notificationId"}
UpdateFields == {"title", "dueDate", "priority", "category", "completed", "notificationId"}
RecordFields == {"title", "dueDate", "priority", "category", "completed", "createdAt",
                 "updatedAt", "userId", "notificationId"}
\* the response record shows the stored document oid of collection coll
Shows(rec, coll, oid) ==
    /\ oid \in DOMAIN coll
    /\ rec.id = <<"lc", oid>>
    /\ Restrict(rec, RecordFields) = Restrict(coll[oid], RecordFields)

\* C1: every stored record has priority in {high, medium, low} and category in
\* {work, personal, study}; a Create with another priority or category, or
\* without a required field, is answered 422 and leaves the store unchanged.
C1_StoredEnums ==
    \A oid \in DOMAIN tasks :
        /\ {"priority", "category"} \subseteq DOMAIN tasks[oid]
        /\ EnumFieldsValid(tasks[oid])
C1_CreateRejected ==
    (IsOp(lastReq', "Create") /\
       (~({"title", "dueDate", "priority", "category"} \subseteq DOMAIN lastReq'.body)
        \/ ~EnumFieldsValid(lastReq'.body)))
    => (lastResp'.status = 422 /\ tasks' = tasks)
C1_EnumInvariant == []C1_StoredEnums /\ [][C1_CreateRejected]_vars
C1_Witness ==
    /\ IsOp(lastReq, "Create") /\ lastResp.status = 422
    /\ "category" \in DOMAIN lastReq.body /\ lastReq.body.category = "hobby"
    /\ DOMAIN tasks # {}

\* C2: Create(input) followed by Get of the returned id yields title, dueDate,
\* priority, category and notificationId equal to the input, completed = false
\* and createdAt = updatedAt.
C2_RoundTrip ==
    [][(session.op = "Create" /\ IsOp(lastReq', "Get") /\ lastReq'.id = session.id)
       => (/\ lastResp'.status = 200
           /\ Restrict(lastResp'.body, InputFields) = Restrict(session.body, InputFields)
           /\ lastResp'.body.completed = FALSE
           /\ lastResp'.body.createdAt = lastResp'.body.updatedAt)]_vars

\* C3: once a Sync call has returned, the collection holds exactly one record
\* per input task and no earlier record that is not in the input.
C3_Replaced(items) ==
    /\ Cardinality(DOMAIN tasks') = Len(items)
    /\ \A k \in 1..Len(items) :
          \E oid \in DOMAIN tasks' :
             /\ Restrict(tasks'[oid], RecordFields \ {"updatedAt"})
                  = Restrict(items[k], RecordFields \ {"updatedAt"})
                    @@ [completed |-> FALSE]
             /\ ("id" \in DOMAIN items[k] /\ WellFormed(items[k].id))
                   => oid = OidOf(items[k].id)
    /\ \A oid \in DOMAIN tasks \cap DOMAIN tasks' :
          \E k \in 1..Len(items) :
             "id" \in DOMAIN items[k] /\ WellFormed(items[k].id) /\ OidOf(items[k].id) = oid
C4_Effect(id, body) ==
    LET oid == OidOf(id)
        supplied == DOMAIN body \cap UpdateFields
    IN /\ oid \in DOMAIN tasks
       /\ DOMAIN tasks' = DOMAIN tasks
       /\ \A o \in DOMAIN tasks \ {oid} : tasks'[o] = tasks[o]
       /\ DOMAIN tasks'[oid] = DOMAIN tasks[oid] \cup supplied \cup {"updatedAt"}
       /\ \A f \in supplied : tasks'[oid][f] = body[f]
       /\ \A f \in DOMAIN tasks[oid] \ (supplied \cup {"updatedAt"}) :
             tasks'[oid][f] = tasks[oid][f]
       /\ tasks'[oid].updatedAt = clock' /\ clock' >= clock
       /\ Shows(lastResp'.body, tasks', oid)
C4_UpdateFrame ==
    [][(IsOp(lastReq', "Update") /\ lastResp'.status = 200)
       => C4_Effect(lastReq'.id, lastReq'.body)]_vars
C4_Witness ==
    /\ IsOp(lastReq, "Update") /\ lastResp.status = 200
    /\ "createdAt" \in DOMAIN lastReq.body
    /\ Cardinality(DOMAIN tasks) >= 2
    /\ lastResp.body.updatedAt > lastResp.body.createdAt

\* C5: Update with an empty partial is answered 400 and leaves the whole store
\* unchanged, for every well-formed id, whether or not a record has that id.
C5_EmptyUpdate ==
    [][(IsOp(lastReq', "Update") /\ WellFormed(lastReq'.id)
        /\ DOMAIN lastReq'.body \cap UpdateFields = {})
       => (lastResp'.status = 400 /\ tasks' = tasks)]_vars
C5_Witness ==
    /\ IsOp(lastReq, "Update") /\ lastResp.status = 400
    /\ lastReq.body = <<>>
    /\ WellFormed(lastReq.id) /\ OidOf(lastReq.id) \in DOMAIN tasks
C5_WitnessAbsent ==
    /\ IsOp(lastReq, "Update") /\ lastResp.status = 400
    /\ WellFormed(lastReq.id) /\ OidOf(lastReq.id) \notin DOMAIN tasks

\* C6: for Get, Update (non-empty valid partial) and Delete, a malformed id is
\* answered 400 without any store call and without change, and a well-formed
\* id matching no record is answered 404 with the store unchanged.
C6_Applies(req) ==
    \/ IsOp(req, "Get")
    \/ IsOp(req, "Delete")
    \/ (IsOp(req, "Update") /\ DOMAIN req.body \cap UpdateFields # {}
        /\ EnumFieldsValid(req.body))
C6_IdErrors ==
    [][C6_Applies(lastReq')
       => /\ ~WellFormed(lastReq'.id)
             => (lastResp'.status = 400 /\ lastResp'.dbCalls = 0 /\ tasks' = tasks)
          /\ (WellFormed(lastReq'.id) /\ OidOf(lastReq'.id) \notin DOMAIN tasks)
             => (lastResp'.status = 404 /\ tasks' = tasks)]_vars
C6_Witness ==
    /\ IsOp(lastReq, "Update") /\ lastResp.status = 404
    /\ DOMAIN tasks # {}
C6_WitnessMalformed ==
    /\ IsOp(lastReq, "Delete") /\ lastResp.status = 400 /\ DOMAIN tasks # {}

\* C7: Update whose partial carries a priority or category outside the
\* enumerations is answered 400 and leaves the record unchanged.
C7_Applies(req) == IsOp(req, "Update") /\ ~EnumFieldsValid(req.body)
C7_InvalidEnumIs400 ==
    [][C7_Applies(lastReq') => (lastResp'.status = 400 /\ tasks' = tasks)]_vars
\* C7 (amended): such an Update is answered 422, the schema layer's status, and
\* leaves the record unchanged.
C7_InvalidEnumIs422 ==
    [][C7_Applies(lastReq') => (lastResp'.status = 422 /\ tasks' = tasks)]_vars
C7_Witness ==
    /\ C7_Applies(lastReq) /\ lastResp.status = 422
    /\ "category" \in DOMAIN lastReq.body
    /\ OidOf(lastReq.id) \in DOMAIN tasks

\* C8: Delete of an existing id answers with taskId equal to that id and removes
\* exactly that record; from then on, until a Create or Sync stores the id
\* again, the id is absent, and Get and Delete of an absent id answer 404.
C8_Step ==
    /\ (IsOp(lastReq', "Delete") /\ WellFormed(lastReq'.id)
        /\ OidOf(lastReq'.id) \in DOMAIN tasks)
       => /\ lastResp'.status = 200
          /\ lastResp'.body.taskId = lastReq'.id
          /\ DOMAIN tasks' = DOMAIN tasks \ {OidOf(lastReq'.id)}
          /\ \A o \in DOMAIN tasks' : tasks'[o] = tasks[o]
    /\ ((IsOp(lastReq', "Delete") \/ IsOp(lastReq', "Get")) /\ WellFormed(lastReq'.id)
        /\ OidOf(lastReq'.id) \notin DOMAIN tasks)
       => (lastResp'.status = 404 /\ OidOf(lastReq'.id) \notin DOMAIN tasks')
    /\ \A o \in DOMAIN tasks' \ DOMAIN tasks :
          IsOp(lastReq', "Create") \/ IsOp(lastReq', "Sync")
    /\ (session.op = "Delete"
        /\ (IsOp(lastReq', "Delete") \/ IsOp(lastReq', "Get"))
        /\ WellFormed(lastReq'.id) /\ OidOf(lastReq'.id) = OidOf(session.id))
       => lastResp'.status = 404
C8_DeleteOnce == [][C8_Step]_vars
C8_Witness ==
    /\ IsOp(lastReq, "Delete") /\ lastResp.status = 404
    /\ session.op = "Delete" /\ OidOf(session.id) = OidOf(lastReq.id)
    /\ DOMAIN tasks # {}
\* C9: List returns only records matching every supplied valid filter, at most
\* limit of them (100 by default), ordered by createdAt descending, so that a
\* truncated answer holds the most recently created matching records.
C9_FilterMatch(doc, q) ==
    /\ ("category" \in DOMAIN q /\ q.category \in {"work", "personal", "study"})
          => doc.category = q.category
    /\ ("priority" \in DOMAIN q /\ q.priority \in {"high", "medium", "low"})
          => doc.priority = q.priority
    /\ ("completed" \in DOMAIN q /\ q.completed \in {"true", "false"})
          => doc.completed = (q.completed = "true")
C9_Limit(q) == IF "limit" \in DOMAIN q THEN q.limit ELSE 100
C9_Listing(q, body) ==
    LET M == {oid \in DOMAIN tasks : C9_FilterMatch(tasks[oid], q)}
        R == {OidOf(body[i].id) : i \in DOMAIN body}
    IN /\ \A i \in DOMAIN body :
             OidOf(body[i].id) \in M /\ Shows(body[i], tasks, OidOf(body[i].id))
       /\ \A i, j \in DOMAIN body : i # j => body[i].id # body[j].id
       /\ Len(body) = Min(C9_Limit(q), Cardinality(M))
       /\ \A i, j \in DOMAIN body : i < j => body[i].createdAt >= body[j].createdAt
       /\ \A oid \in M \ R : \A i \in DOMAIN body :
             tasks[oid].createdAt <= body[i].createdAt
C9_ListOrderLimit ==
    [][IsOp(lastReq', "List")
       => /\ lastResp'.status = 200 => C9_Listing(lastReq'.params, lastResp'.body)
          /\ (C9_Limit(lastReq'.params) >= 0
              /\ ("completed" \in DOMAIN lastReq'.params
                    => lastReq'.params.completed \in {"true", "false"}))
             => lastResp'.status = 200]_vars
C9_Witness ==
    /\ IsOp(lastReq, "List") /\ lastResp.status = 200
    /\ "limit" \in DOMAIN lastReq.params /\ lastReq.params.limit = 1
    /\ Len(lastResp.body) = 1
    /\ \E oid \in DOMAIN tasks : tasks[oid].createdAt < lastResp.body[1].createdAt

\* C10: a List request whose category, priority or completed filter carries an
\* unknown or invalid value succeeds and returns the same result as the same
\* request without that filter.
C10_BadCategory(q) ==
    "category" \in DOMAIN q /\ q.category \notin {"work", "personal", "study"}
C10_BadPriority(q) ==
    "priority" \in DOMAIN q /\ q.priority \notin {"high", "medium", "low"}
C10_BadCompleted(q) ==
    "completed" \in DOMAIN q /\ q.completed \notin {"true", "false"}
C10_Strip(q) ==
    Restrict(q, DOMAIN q \ ((IF C10_BadCategory(q) THEN {"category"} ELSE {})
                            \cup (IF C10_BadPriority(q) THEN {"priority"} ELSE {})
                            \cup (IF C10_BadCompleted(q) THEN {"completed"} ELSE {})))
C10_InvalidFilterIgnored ==
    [][(IsOp(lastReq', "List")
        /\ (C10_BadCategory(lastReq'.params) \/ C10_BadPriority(lastReq'.params)
            \/ C10_BadCompleted(lastReq'.params)))
       => (lastResp'.status = 200
           /\ lastResp' \in ListResponses(tasks, C10_Strip(lastReq'.params)))]_vars
\* C10 (amended): an unknown category or priority value is ignored, the request
\* getting the result of the same request without that filter; a completed
\* value that is not a boolean is rejected with 422.
C10_InvalidEnumFilterIgnored ==
    [][IsOp(lastReq', "List")
       => /\ C10_BadCompleted(lastReq'.params) => lastResp'.status = 422
          /\ ((C10_BadCategory(lastReq'.params) \/ C10_BadPriority(lastReq'.params))
              /\ ~C10_BadCompleted(lastReq'.params))
             => /\ lastResp' \in ListResponses(tasks, C10_Strip(lastReq'.params))
                /\ C9_Limit(lastReq'.params) >= 0 => lastResp'.status = 200]_vars
C10_Witness ==
    /\ IsOp(lastReq, "List") /\ lastResp.status = 200
    /\ C10_BadCategory(lastReq.params)
    /\ Len(lastResp.body) >= 1

\* C11: in every Stats report over a non-empty collection, totalTasks =
\* completedTasks + pendingTasks, and for every category bucket and every
\* priority bucket total = completed + pending; the counts are those of the
\* collection.
C11_Count(field, value) ==
    Cardinality({oid \in DOMAIN tasks : tasks[oid][field] = value})
C11_Buckets(stats, field) ==
    /\ DOMAIN stats = {tasks[oid][field] : oid \in DOMAIN tasks}
    /\ \A v \in DOMAIN stats :
          /\ stats[v].total = stats[v].completed + stats[v].pending
          /\ stats[v].total = C11_Count(field, v)
          /\ stats[v].completed =
                Cardinality({oid \in DOMAIN tasks :
                                tasks[oid][field] = v /\ tasks[oid].completed})
C11_StatsSums ==
    (IsOp(lastReq, "Stats") /\ DOMAIN tasks # {})
    => /\ lastResp.status = 200
       /\ LET o == lastResp.body.overview
          IN /\ o.totalTasks = o.completedTasks + o.pendingTasks
             /\ o.totalTasks = Cardinality(DOMAIN tasks)
             /\ o.completedTasks = C11_Count("completed", TRUE)
             /\ o.pendingTasks = C11_Count("completed", FALSE)
       /\ C11_Buckets(lastResp.body.categoryStats, "category")
       /\ C11_Buckets(lastResp.body.priorityStats, "priority")
C11_Witness ==
    /\ IsOp(lastReq, "Stats") /\ lastResp.status = 200
    /\ lastResp.body.overview.totalTasks = 2
    /\ lastResp.body.overview.completedTasks = 1
    /\ Cardinality(DOMAIN lastResp.body.categoryStats) = 2

\* C12: Stats on an empty collection succeeds with totalTasks = 0,
\* completionRate = 0, empty category and priority breakdowns and no most or
\* least productive category; every rate field (overview, per bucket, per day,
\* per week) is 0 whenever its denominator count is 0.
C12_ZeroDivision ==
    /\ IsOp(lastReq, "Stats")
       => /\ lastResp.status = 200
          /\ DOMAIN tasks = {}
             => /\ lastResp.body.overview.totalTasks = 0
                /\ lastResp.body.overview.completionRate = 0
                /\ DOMAIN lastResp.body.categoryStats = {}
                /\ DOMAIN lastResp.body.priorityStats = {}
                /\ DOMAIN lastResp.body.insights
                     \cap {"mostProductiveCategory", "leastProductiveCategory"} = {}
          /\ lastResp.body.overview.totalTasks = 0
             => lastResp.body.overview.completionRate = 0
          /\ \A c \in DOMAIN lastResp.body.categoryStats :
                lastResp.body.categoryStats[c].total = 0
                => lastResp.body.categoryStats[c].completionRate = 0
          /\ \A p \in DOMAIN lastResp.body.priorityStats :
                lastResp.body.priorityStats[p].total = 0
                => lastResp.body.priorityStats[p].completionRate = 0
          /\ Len(lastResp.body.dailyTrends) = 7
          /\ \A i \in DOMAIN lastResp.body.dailyTrends :
                lastResp.body.dailyTrends[i].created = 0
                => lastResp.body.dailyTrends[i].completionRate.num = 0
    /\ IsOp(lastReq, "Productivity")
       => /\ lastResp.status = 200
          /\ \A i \in DOMAIN lastResp.body.weeklyTrends :
                lastResp.body.weeklyTrends[i].created = 0
                => lastResp.body.weeklyTrends[i].completionRate = 0
C12_Witness ==
    /\ IsOp(lastReq, "Stats") /\ lastResp.status = 200
    /\ DOMAIN tasks = {} /\ nextOid > 1
    /\ lastResp.body.overview.completionRate = 0

\* C13: a successful Sync returns one record per input task in input order,
\* each with updatedAt equal to the returned syncTime, and an empty conflicts
\* list; an input task with a well-formed id is stored under that id, and one
\* whose id is absent or malformed is stored under a fresh id distinct from
\* every other id in the collection.
C13_HasWellFormedId(item) == "id" \in DOMAIN item /\ WellFormed(item.id)
C13_Response(items, body) ==
    /\ Len(body.tasks) = Len(items)
    /\ body.conflicts = <<>>
    /\ \A k \in 1..Len(items) :
          LET rec == body.tasks[k]
              oid == OidOf(rec.id)
          IN /\ rec.updatedAt = body.syncTime
             /\ Restrict(rec, RecordFields \ {"updatedAt"})
                  = Restrict(items[k], RecordFields \ {"updatedAt"})
                    @@ [completed |-> FALSE]
             /\ Shows(rec, tasks', oid)
             /\ C13_HasWellFormedId(items[k]) => oid = OidOf(items[k].id)
             /\ ~C13_HasWellFormedId(items[k])
                => /\ oid \notin DOMAIN tasks
                   /\ \A j \in 1..Len(items) : j # k => OidOf(body.tasks[j].id) # oid
    /\ DOMAIN tasks' = {OidOf(body.tasks[k].id) : k \in 1..Len(items)}
C13_SyncResponse ==
    [][(IsOp(lastReq', "Sync") /\ lastResp'.status = 200)
       => C13_Response(lastReq'.tasks, lastResp'.body)]_vars
C13_Witness ==
    /\ IsOp(lastReq, "Sync") /\ lastResp.status = 200
    /\ Len(lastReq.tasks) = 2
    /\ C13_HasWellFormedId(lastReq.tasks[2]) /\ ~C13_HasWellFormedId(lastReq.tasks[1])
    /\ lastResp.body.tasks[2].id # lastReq.tasks[2].id
    /\ lastResp.body.syncTime > 0

\* C14: createdAt is write-once: for every record id, the createdAt seen through
\* Get(id) is the same from the record's creation to its deletion, whatever
\* Update and Sync requests (a Sync re-submitting the id included) occur.
C14_Kept ==
    \A oid \in DOMAIN tasks \cap DOMAIN tasks' :
        tasks'[oid].createdAt = tasks[oid].createdAt
C14_CreatedAtWriteOnce == [][C14_Kept]_vars
\* C14 (amended): createdAt of a record is the same after every request other
\* than Sync; a successful Sync stores each input task with the createdAt the
\* input supplies, also under an id that was stored before.
C14_CreatedAtKeptButBySync ==
    [][/\ ~IsOp(lastReq', "Sync") => C14_Kept
       /\ (IsOp(lastReq', "Sync") /\ lastResp'.status = 200)
          => \A k \in 1..Len(lastReq'.tasks) :
                tasks'[OidOf(lastResp'.body.tasks[k].id)].createdAt
                   = lastReq'.tasks[k].createdAt]_vars
C14_Witness ==
    /\ IsOp(lastReq, "Update") /\ lastResp.status = 200
    /\ "createdAt" \in DOMAIN lastReq.body
    /\ lastResp.body.createdAt # lastReq.body.createdAt

\* C15: every handler outcome is an HTTP response: a store failure during
\* Create, List, Get, Update, Delete, Sync, Stats or the productivity endpoint is
\* answered 500 at once, the failing call being the handler's last store call
\* (no retry); a store failure during the health check is answered 503; and the
\* 400 or 404 of Get, Update or Delete is returned as such, never as 500.
C15_Step ==
    /\ ~IsOp(lastReq', "none")
       => lastResp'.status \in {200, 400, 404, 422, 500, 503}
    /\ "fails" \in DOMAIN lastReq'
       => /\ lastResp'.status = IF IsOp(lastReq', "Health") THEN 503 ELSE 500
          /\ lastResp'.dbCalls = lastReq'.fails
    /\ ((IsOp(lastReq', "Get") \/ IsOp(lastReq', "Delete")
         \/ (IsOp(lastReq', "Update") /\ EnumFieldsValid(lastReq'.body)
             /\ DOMAIN lastReq'.body \cap UpdateFields # {}))
        /\ "fails" \notin DOMAIN lastReq')
       => /\ ~WellFormed(lastReq'.id) => lastResp'.status = 400
          /\ (WellFormed(lastReq'.id) /\ OidOf(lastReq'.id) \notin DOMAIN tasks)
             => lastResp'.status = 404
C15_ErrorStatus == [][C15_Step]_vars
C15_Witness ==
    /\ IsOp(lastReq, "Health") /\ "fails" \in DOMAIN lastReq
    /\ lastResp.status = 503
    /\ DOMAIN tasks # {}

\* C18: when a Sync call fails while inserting the k-th input task (a store
\* error, or an input id that repeats the id of an earlier input task), it is
\* answered 500 and the collection holds exactly the first k-1 input tasks: the
\* records from before the call are not restored and the remaining input tasks
\* are not inserted.
C18_Repeats(items, k) ==
    /\ C13_HasWellFormedId(items[k])
    /\ \E j \in 1..(k - 1) :
          C13_HasWellFormedId(items[j]) /\ OidOf(items[j].id) = OidOf(items[k].id)
\* the input tasks whose insert fails: at most one
C18_FailingInsert(req) ==
    IF "fails" \in DOMAIN req
    THEN {k \in 1..Len(req.tasks) : req.fails = 2 * k}
    ELSE {k \in 1..Len(req.tasks) :
             C18_Repeats(req.tasks, k) /\ \A j \in 1..(k - 1) : ~C18_Repeats(req.tasks, j)}
C18_SyncPartialFailure ==
    [][(IsOp(lastReq', "Sync") /\ lastResp'.status # 422)
       => \A k \in C18_FailingInsert(lastReq') :
             /\ lastResp'.status = 500
             /\ C3_Replaced(SubSeq(lastReq'.tasks, 1, k - 1))]_vars
C18_Witness ==
    /\ IsOp(lastReq, "Sync") /\ lastResp.status = 500
    /\ "fails" \in DOMAIN lastReq /\ lastReq.fails = 4
    /\ Len(lastReq.tasks) = 3
    /\ Cardinality(DOMAIN tasks) = 1
C18_WitnessRepeated ==
    /\ IsOp(lastReq, "Sync") /\ lastResp.status = 500
    /\ "fails" \notin DOMAIN lastReq
    /\ Len(lastReq.tasks) = 3 /\ Cardinality(DOMAIN tasks) = 2

\* C16: Sync is not atomic.  Its delete-all leaves the collection empty,
\* whatever it held and whatever the input, and a List, Get or Stats whose
\* store call comes before the first insert is answered from the emptied
\* collection; the inserts of two Sync calls can interleave, so that the
\* collection ends up equal to neither call's input list.
C16_Step ==
    /\ \A c \in Clients :
          (inflight[c].op = "none" /\ inflight'[c].op = "Sync")
          => /\ DOMAIN tasks' = {}
             /\ inflight'[c].deleted = Cardinality(DOMAIN tasks)
    /\ (IsOp(lastReq', "List") /\ lastReq'.params = <<>>)
       => /\ lastResp'.status = 200
          /\ {OidOf(lastResp'.body[i].id) : i \in DOMAIN lastResp'.body} = DOMAIN tasks
    /\ IsOp(lastReq', "Get")
       => (lastResp'.status = 404 <=> OidOf(lastReq'.id) \notin DOMAIN tasks)
    /\ \A c \in Clients :
          (inflight[c].op = "none" /\ inflight'[c].op = "Stats")
          => inflight'[c].total_tasks = Cardinality(DOMAIN tasks)
C16_SyncNotAtomic == [][C16_Step]_vars
\* a Sync with a non-empty input has cleared a non-empty collection and not
\* yet inserted
C16_MidSync(c) ==
    /\ inflight[c].op = "Sync" /\ inflight[c].pc = "insert_one" /\ inflight[c].k = 1
    /\ inflight[c].deleted > 0 /\ Len(inflight[c].items) > 0
\* the collection is exactly the input list
C16_Equals(items) ==
    /\ Cardinality(DOMAIN tasks) = Len(items)
    /\ \A k \in 1..Len(items) :
          \E oid \in DOMAIN tasks :
             Restrict(tasks[oid], RecordFields \ {"updatedAt"})
               = Restrict(items[k], RecordFields \ {"updatedAt"}) @@ [completed |-> FALSE]
\* a List answered with no record while the other client's Sync is under way
C16_Witness ==
    /\ IsOp(lastReq, "List") /\ lastResp.status = 200 /\ lastResp.body = <<>>
    /\ \E c \in Clients : C16_MidSync(c)
\* a Get answered 404, and a Stats that counted no task, in the same situation
C16_WitnessGet ==
    /\ IsOp(lastReq, "Get") /\ lastResp.status = 404 /\ lastReq.id = <<"lc", 101>>
    /\ \E c \in Clients : C16_MidSync(c) /\ inflight[c].items = <<SyncClientId>>
C16_WitnessStats ==
    \E c, d \in Clients :
        /\ C16_MidSync(c)
        /\ inflight[d].op = "Stats" /\ inflight[d].pc = "completed"
        /\ inflight[d].total_tasks = 0
\* both Sync calls have made all their store calls and the collection is
\* neither input list
C16_WitnessTwoSyncs ==
    /\ \A c \in Clients : inflight[c].op = "Sync" /\ inflight[c].pc = "return"
    /\ \A c \in Clients : ~C16_Equals(inflight[c].items)

\* C19: whenever Create's insert or Update's write has been applied to the
\* store, the handler answers 200 with the written record, in every
\* interleaving with other requests.
C19_Written(h, body) ==
    IF h.op = "Create"
    THEN /\ body.id = <<"lc", h.inserted_id>>
         /\ Restrict(body, RecordFields) = h.task_dict
    ELSE \A f \in DOMAIN h.update_data : body[f] = h.update_data[f]
C19_WriteAnswered ==
    [][\A c \in Clients :
          (inflight[c].op \in {"Create", "Update"} /\ inflight'[c].op = "none")
          => /\ lastResp'.status = 200
             /\ C19_Written(inflight[c], lastResp'.body)]_vars

\* C20: every Stats report satisfies 0 <= completedTasks <= totalTasks,
\* pendingTasks >= 0 and overdueTask <= pendingTasks, also when Create, Update,
\* Delete or Sync requests run between the report's count queries.
C20_StatsBounds ==
    (IsOp(lastReq, "Stats") /\ lastResp.status = 200)
    => LET o == lastResp.body.overview
       IN /\ 0 <= o.completedTasks
          /\ o.completedTasks <= o.totalTasks
          /\ o.pendingTasks >= 0
          /\ o.overdueTask <= o.pendingTasks

\* C17: the weekly trend has exactly 4 entries, oldest week first and labelled
\* Week 1 to Week 4, one per consecutive Monday-aligned calendar week ending
\* with the week containing now; every task whose createdAt lies anywhere in
\* those 4 weeks (Monday 00:00:00 through Sunday 23:59:59.999999) is counted in
\* the created count of exactly one entry, and each entry's completed count
\* is at most its created count.
C17_WeekOf(t) == (t \div TicksPerDay) \div 7
C17_CreatedIn(w) ==
    Cardinality({oid \in DOMAIN tasks : C17_WeekOf(tasks[oid].createdAt) = w})
C17_WeeklyTrend ==
    (IsOp(lastReq, "Productivity") /\ lastResp.status = 200)
    => LET trend == lastResp.body.weeklyTrends
       IN /\ Len(trend) = 4
          /\ \A i \in 1..4 :
                /\ trend[i].week = i
                /\ trend[i].startDate % 7 = 0
                /\ i < 4 => trend[i + 1].startDate = trend[i].startDate + 7
                /\ trend[i].created = C17_CreatedIn(trend[i].startDate \div 7)
                /\ trend[i].completed <= trend[i].created
          /\ \E now \in lastReq.at .. lastResp.body.timestamp :
                trend[4].startDate \div 7 = C17_WeekOf(now)
====
